---------------------------- MODULE Spec2Model ----------------------------
(***************************************************************************)
(* A model of the change-stream consumer of src/run_consumer.js.           *)
(*                                                                         *)
(* The consumer connects, drops the collection, opens a change stream      *)
(* whose pipeline lets only 'update' events through, buffers the events in *)
(* eventBatch, hands every full buffer to processBatch, and is stopped by  *)
(* a 30 s timer that every delivered event re-arms.  The 'close' handler   *)
(* hands the rest of the buffer to processBatch, prints the report from    *)
(* the two global counters and closes the client.                          *)
(*                                                                         *)
(* One action is one run-to-completion step of the Node event loop: a      *)
(* callback, or an async function from one await to the next.  History     *)
(* variables (received, filtered, batches, measurementStart, lastEventAt,  *)
(* closedBy, clientCloseCalls, and the fields at, inflight, done and       *)
(* finalBatch of report) record what the program did; the program never    *)
(* reads them.                                                             *)
(*                                                                         *)
(* The two producer scripts, src/unnamed/part_000 and                      *)
(* src/run_generator.js, are modelled by the variable producer and the     *)
(* specification ProducerSpec: they seed the collection and then update    *)
(* every document.                                                         *)
(***************************************************************************)
EXTENDS Integers, Sequences, FiniteSets

\* ------------------------------------------------------------- bounds
MaxBatches == 2       \* the feed delivers at most MaxBatches * batchSize events
MaxBatchSize == 2     \* argv.batchSize ranges over 1..MaxBatchSize
MaxFeedTicks == 2     \* the feed delivers its events before this many ticks
MaxSyncMs == 1        \* longest time a synchronous batch is measured to take
MaxLookupTicks == 1   \* a bulk lookup settles within this many ticks
MaxDocs == 3          \* the producer's numDocs ranges over 0..MaxDocs
INSERT_BATCH_SIZE == 2   \* 1000 in run_generator.js, scaled down
UPDATE_BATCH_SIZE == 2   \* 1000 in run_generator.js, scaled down

\* -------------------------------------------------- program constants
IdleTimeoutMs == 30000

\* The grain of the clock: half an idle window.
TickMs == IdleTimeoutMs \div 2

\* A timer handle: cleared or fired (not armed), or pending with a deadline.
NoTimer == [armed |-> FALSE, deadline |-> 0]
Timer(deadline) == [armed |-> TRUE, deadline |-> deadline]

FullDocumentChoices == {"default", "updateLookup"}
NonMeasuredKinds == {"insert", "delete", "drop"}

VARIABLES
    argv,                   \* [fullDocument, batchSize], parsed once
    pc,                     \* position of startConsumer
    client,                 \* "created" | "open" | "closed"
    changeStream,           \* "none" | "open" | "closing" | "closed"
    eventBatch,             \* the buffer
    totalEventsProcessed,
    totalProcessingTimeMs,
    idleTimeout,            \* deadline of the pending timer, or NoTimer
    now,                    \* the wall clock, in ms
    batches,                \* one record per processBatch invocation, with the
                            \* find() queries it issued in `lookups`
    report,                 \* what the 'close' handler printed
    received,               \* history: events delivered to the 'change' handlers
    filtered,               \* history: the last step was a filtered-out event
    measurementStart,       \* history: <<time of the first delivered event>>
    lastEventAt,            \* history: <<arrival time of the last delivered event>>
    closedBy,               \* history: what closed the stream
    clientCloseCalls,       \* history: calls of client.close()
    producer                \* the state of a producer script, see NotStarted

consumerVars ==
    <<argv, pc, client, changeStream, eventBatch, totalEventsProcessed,
      totalProcessingTimeMs, idleTimeout, now, batches, report, received,
      filtered, measurementStart, lastEventAt, closedBy, clientCloseCalls>>

vars == <<consumerVars, producer>>

\* The number of update events the feed delivers in one run, at most.
MaxEvents == MaxBatches * argv.batchSize

\* ------------------------------------------------- JavaScript numbers
\* A non-negative JavaScript number as a fraction, with NaN and Infinity.
Num(n, d) == [kind |-> "num", num |-> n, den |-> d]
NaN == [kind |-> "nan", num |-> 0, den |-> 1]
Infinity == [kind |-> "inf", num |-> 1, den |-> 0]
Zero == Num(0, 1)

\* x / y as JavaScript computes it, for non-negative x and y.
JsDiv(x, y) ==
    IF x.kind = "nan" \/ y.kind = "nan" THEN NaN
    ELSE IF x.kind = "inf" THEN (IF y.kind = "inf" THEN NaN ELSE Infinity)
    ELSE IF y.kind = "inf" THEN Zero
    ELSE IF y.num = 0 THEN (IF x.num = 0 THEN NaN ELSE Infinity)
    ELSE Num(x.num * y.den, x.den * y.num)

\* x * k for a positive integer k.
JsTimes(x, k) == IF x.kind = "num" THEN Num(x.num * k, x.den) ELSE x

NumEq(x, y) ==
    /\ x.kind = y.kind
    /\ x.kind = "num" => x.num * y.den = y.num * x.den

\* ------------------------------------------------------------ helpers
RECURSIVE Concat(_)
Concat(seqs) == IF seqs = <<>> THEN <<>> ELSE Head(seqs) \o Concat(Tail(seqs))

RECURSIVE SumSeq(_)
SumSeq(ns) == IF ns = <<>> THEN 0 ELSE Head(ns) + SumSeq(Tail(ns))

BatchEvents == [i \in DOMAIN batches |-> batches[i].events]
InFlight == {i \in DOMAIN batches : batches[i].status = "inflight"}

NoReport ==
    [printed |-> FALSE, events |-> 0, timeMs |-> 0, M1 |-> Zero,
     numBatches |-> Zero, M2 |-> Zero,
     at |-> 0, inflight |-> {}, done |-> {}, finalBatch |-> 0]

\* A producer script before it is run.  `inserted` holds the keys of the
\* documents it has put in the collection, `issued` the keys it has called
\* updateOne for, `pending` the keys of the updates not settled yet.
NotStarted ==
    [script |-> "none", numDocs |-> 0, pc |-> "idle", client |-> "none",
     i |-> 0, deleteFailed |-> FALSE, inserted |-> <<>>, docIds |-> <<>>,
     issued |-> <<>>, pending |-> {}, err |-> FALSE]

Init ==
    /\ argv \in [fullDocument : FullDocumentChoices, batchSize : 1..MaxBatchSize]
    /\ pc = "connect"
    /\ client = "created"
    /\ changeStream = "none"
    /\ eventBatch = <<>>
    /\ totalEventsProcessed = 0
    /\ totalProcessingTimeMs = 0
    /\ idleTimeout = NoTimer
    /\ now = 0
    /\ batches = <<>>
    /\ report = NoReport
    /\ received = <<>>
    /\ filtered = FALSE
    /\ measurementStart = <<>>
    /\ lastEventAt = <<>>
    /\ closedBy = "none"
    /\ clientCloseCalls = 0
    /\ producer = NotStarted

\* --------------------------------------------------------- processBatch
\* The keys of the global buffer, not of the batch handed over.
DocIdsOfBuffer(batch) == [k \in DOMAIN eventBatch |-> eventBatch[k].documentKey]

\* batch.map(event => event.documentKey._id)
DocIds(batch) == [k \in DOMAIN batch |-> batch[k].documentKey]

\* processBatch(batch) up to its first await, called at time `now`; `d` is the
\* time the synchronous work is measured to take.  In 'default' mode the
\* function suspends at `await collection.find(...).toArray()` and the batch
\* is in flight; in 'updateLookup' mode there is no await on the path, so the
\* counters are updated before the call returns.
ProcessBatch(batch, d) ==
    IF argv.fullDocument = "default"
    THEN [batches |-> Append(batches, [events |-> batch, start |-> now,
                                       end |-> now, status |-> "inflight",
                                       lookups |-> <<DocIds(batch)>>]),
          total |-> totalEventsProcessed,
          timeMs |-> totalProcessingTimeMs]
    ELSE [batches |-> Append(batches, [events |-> batch, start |-> now,
                                       end |-> now + d, status |-> "done",
                                       lookups |-> <<>>]),
          total |-> totalEventsProcessed + Len(batch),
          timeMs |-> totalProcessingTimeMs + d]

\* The time a call of processBatch may take before it returns.
SyncDurations == IF argv.fullDocument = "default" THEN {0} ELSE 0..MaxSyncMs

\* A completion that adds to the value the counters had when batch i was
\* handed over, not to the value they have now.
FindResolveLostUpdate(i) ==
    LET before == {j \in DOMAIN batches :
                      /\ batches[j].status = "done"
                      /\ batches[j].end <= batches[i].start}
        sizes == [j \in DOMAIN batches |->
                    IF j \in before THEN Len(batches[j].events) ELSE 0]
        times == [j \in DOMAIN batches |->
                    IF j \in before THEN batches[j].end - batches[j].start ELSE 0]
    IN  /\ i \in InFlight
        /\ batches' = [batches EXCEPT ![i].status = "done", ![i].end = now]
        /\ totalEventsProcessed' = SumSeq(sizes) + Len(batches[i].events)
        /\ totalProcessingTimeMs' = SumSeq(times) + (now - batches[i].start)
        /\ filtered' = FALSE
        /\ UNCHANGED producer
        /\ UNCHANGED <<argv, pc, client, changeStream, eventBatch, idleTimeout,
                       now, report, received, measurementStart, lastEventAt,
                       closedBy, clientCloseCalls>>

\* The bulk lookup of batch i resolves: the rest of the try block runs.  The
\* continuation runs whenever the promise settles, whatever happened to the
\* stream or the client in between.
FindResolve(i) ==
    /\ i \in InFlight
    /\ batches' = [batches EXCEPT ![i].status = "done", ![i].end = now]
    /\ totalEventsProcessed' = totalEventsProcessed + Len(batches[i].events)
    /\ totalProcessingTimeMs' = totalProcessingTimeMs + (now - batches[i].start)
    /\ filtered' = FALSE
    /\ UNCHANGED producer
    /\ UNCHANGED <<argv, pc, client, changeStream, eventBatch, idleTimeout,
                   now, report, received, measurementStart, lastEventAt,
                   closedBy, clientCloseCalls>>

\* The lookup rejects and nothing catches it: the rejection is unhandled and
\* the process dies with the stream and the timer it held.
FindRejectUncaught(i) ==
    /\ i \in InFlight
    /\ batches' = [batches EXCEPT ![i].status = "failed", ![i].end = now]
    /\ changeStream' = "closed"
    /\ idleTimeout' = NoTimer
    /\ filtered' = FALSE
    /\ UNCHANGED producer
    /\ UNCHANGED <<argv, pc, client, eventBatch, totalEventsProcessed,
                   totalProcessingTimeMs, now, report, received,
                   measurementStart, lastEventAt, closedBy, clientCloseCalls>>

\* A catch block that counts the events of the failed batch, but no latency.
FindRejectCountingEvents(i) ==
    /\ i \in InFlight
    /\ batches' = [batches EXCEPT ![i].status = "failed", ![i].end = now]
    /\ totalEventsProcessed' = totalEventsProcessed + Len(batches[i].events)
    /\ filtered' = FALSE
    /\ UNCHANGED producer
    /\ UNCHANGED <<argv, pc, client, changeStream, eventBatch,
                   totalProcessingTimeMs, idleTimeout, now, report, received,
                   measurementStart, lastEventAt, closedBy, clientCloseCalls>>

\* The bulk lookup of batch i rejects: the catch block logs the error.
FindReject(i) ==
    /\ i \in InFlight
    /\ batches' = [batches EXCEPT ![i].status = "failed", ![i].end = now]
    /\ filtered' = FALSE
    /\ UNCHANGED producer
    /\ UNCHANGED <<argv, pc, client, changeStream, eventBatch,
                   totalEventsProcessed, totalProcessingTimeMs, idleTimeout,
                   now, report, received, measurementStart, lastEventAt,
                   closedBy, clientCloseCalls>>

\* -------------------------------------------------------- startConsumer
\* The catch block of startConsumer: log, and close the client if there is one
\* (there always is: it is constructed before the try).
CatchBlock ==
    /\ pc' = "failed"
    /\ client' = "closed"
    /\ clientCloseCalls' = clientCloseCalls + 1

\* await client.connect()
Connect ==
    /\ pc = "connect"
    /\ \E ok \in BOOLEAN :
          IF ok
          THEN /\ pc' = "drop"
               /\ client' = "open"
               /\ UNCHANGED clientCloseCalls
          ELSE CatchBlock
    /\ filtered' = FALSE
    /\ UNCHANGED producer
    /\ UNCHANGED <<argv, changeStream, eventBatch, totalEventsProcessed,
                   totalProcessingTimeMs, idleTimeout, now, batches, report,
                   received, measurementStart, lastEventAt, closedBy>>

DropOutcomes == {"dropped", "NamespaceNotFound", "error"}

\* await collection.drop(), then, in the same step, watch(), the registration
\* of the handlers and the first setTimeout.
StartWatching ==
    /\ pc = "drop"
    /\ \E dropped \in DropOutcomes, watchThrows \in BOOLEAN :
          IF dropped = "error" \/ watchThrows
          THEN /\ CatchBlock
               /\ UNCHANGED <<changeStream, idleTimeout>>
          ELSE /\ pc' = "listening"
               /\ changeStream' = "open"
               /\ idleTimeout' = Timer(now + IdleTimeoutMs)
               /\ UNCHANGED <<client, clientCloseCalls>>
    /\ filtered' = FALSE
    /\ UNCHANGED producer
    /\ UNCHANGED <<argv, eventBatch, totalEventsProcessed,
                   totalProcessingTimeMs, now, batches, report, received,
                   measurementStart, lastEventAt, closedBy>>

\* ------------------------------------------------------------- handlers
\* The pipeline [{ $match: { operationType: 'update' } }].
PipelineMatches(kind) == kind = "update"

BatchIsFullOffByOne(buffer) == Len(buffer) > argv.batchSize

BatchIsFull(buffer) == Len(buffer) >= argv.batchSize

PushEventFront(buffer, event) == <<event>> \o buffer

PushEventTwice(buffer, event) == Append(Append(buffer, event), event)

PushEvent(buffer, event) == Append(buffer, event)

\* The next update event of the feed.  The producer updates every document it
\* inserted once, in insertion order, so the n-th update carries the n-th key.
NextEvent == [seq |-> Len(received) + 1, documentKey |-> Len(received) + 1]

\* A timer that is set without clearing the pending one first.
ResetTimeoutKeepingPending(at) ==
    IF idleTimeout.armed THEN idleTimeout ELSE Timer(at + IdleTimeoutMs)

\* The second 'change' handler, run at time `at`: clear the pending timer and
\* set a new one, a full idle window from now.
ResetTimeout(at) == Timer(at + IdleTimeoutMs)

\* An update event is delivered: the first 'change' handler buffers it and
\* hands a full buffer to processBatch, the second one re-arms the timer.
OnChange ==
    /\ changeStream = "open"
    /\ Len(received) < MaxEvents
    /\ now < MaxFeedTicks * TickMs
    /\ PipelineMatches("update")
    /\ \E d \in SyncDurations :
          LET event == NextEvent
              pushed == PushEvent(eventBatch, event)
              full == BatchIsFull(pushed)
              after == IF full THEN ProcessBatch(pushed, d)
                       ELSE [batches |-> batches, total |-> totalEventsProcessed,
                             timeMs |-> totalProcessingTimeMs]
              end == IF full THEN now + d ELSE now
          IN  /\ received' = Append(received, event)
              /\ measurementStart' =
                    IF measurementStart = <<>> THEN <<now>> ELSE measurementStart
              /\ eventBatch' = IF full THEN <<>> ELSE pushed
              /\ batches' = after.batches
              /\ totalEventsProcessed' = after.total
              /\ totalProcessingTimeMs' = after.timeMs
              /\ now' = end
              /\ lastEventAt' = <<now>>
              /\ idleTimeout' = ResetTimeout(end)
    /\ filtered' = FALSE
    /\ UNCHANGED producer
    /\ UNCHANGED <<argv, pc, client, changeStream, report, closedBy,
                   clientCloseCalls>>

\* A stream without the $match stage: every event reaches the second
\* 'change' handler, which re-arms the timer.
OnFilteredRearming ==
    /\ changeStream = "open"
    /\ \E kind \in NonMeasuredKinds : kind # "update"
    /\ filtered' = TRUE
    /\ idleTimeout' = Timer(now + IdleTimeoutMs)
    /\ UNCHANGED producer
    /\ UNCHANGED <<argv, pc, client, changeStream, eventBatch,
                   totalEventsProcessed, totalProcessingTimeMs, now,
                   batches, report, received, measurementStart, lastEventAt,
                   closedBy, clientCloseCalls>>

\* The producer writes something that is no update: the pipeline does not let
\* the event through, and no handler runs.
OnFiltered ==
    /\ changeStream = "open"
    /\ \E kind \in NonMeasuredKinds : ~PipelineMatches(kind)
    /\ filtered' = TRUE
    /\ UNCHANGED producer
    /\ UNCHANGED <<argv, pc, client, changeStream, eventBatch,
                   totalEventsProcessed, totalProcessingTimeMs, idleTimeout,
                   now, batches, report, received, measurementStart,
                   lastEventAt, closedBy, clientCloseCalls>>

\* An 'error' handler that also releases the client.
OnErrorClosingClient ==
    /\ changeStream = "open"
    /\ client' = "closed"
    /\ clientCloseCalls' = clientCloseCalls + 1
    /\ \E driverCloses \in BOOLEAN :
          IF driverCloses
          THEN changeStream' = "closing" /\ closedBy' = "error"
          ELSE UNCHANGED <<changeStream, closedBy>>
    /\ filtered' = FALSE
    /\ UNCHANGED producer
    /\ UNCHANGED <<argv, pc, eventBatch, totalEventsProcessed,
                   totalProcessingTimeMs, idleTimeout, now, batches, report,
                   received, measurementStart, lastEventAt>>

\* The 'error' handler logs.  What the driver does with the stream after it
\* emitted 'error' is not the program's choice: the stream stays open, or the
\* driver closes it and 'close' is emitted next.
OnError ==
    /\ changeStream = "open"
    /\ \E driverCloses \in BOOLEAN :
          IF driverCloses
          THEN changeStream' = "closing" /\ closedBy' = "error"
          ELSE UNCHANGED <<changeStream, closedBy>>
    /\ filtered' = FALSE
    /\ UNCHANGED producer
    /\ UNCHANGED <<argv, pc, client, eventBatch, totalEventsProcessed,
                   totalProcessingTimeMs, idleTimeout, now, batches, report,
                   received, measurementStart, lastEventAt, clientCloseCalls>>

\* The figures of the FINAL RESULTS block, from the two counters.
FinalResults(total, timeMs) ==
    LET M1_Throughput == JsTimes(JsDiv(Num(total, 1), Num(timeMs, 1)), 1000)
        numBatches == JsDiv(Num(total, 1), Num(argv.batchSize, 1))
        M2_AvgBatchLatency == JsDiv(Num(timeMs, 1), numBatches)
    IN  [events |-> total, timeMs |-> timeMs, M1 |-> M1_Throughput,
         numBatches |-> numBatches, M2 |-> M2_AvgBatchLatency]

\* The 'close' handler: hand the rest of the buffer to processBatch without
\* awaiting it, print the report, close the client.
OnClose ==
    /\ changeStream = "closing"
    /\ \E d \in SyncDurations :
          LET rest == Len(eventBatch) > 0
              after == IF rest THEN ProcessBatch(eventBatch, d)
                       ELSE [batches |-> batches, total |-> totalEventsProcessed,
                             timeMs |-> totalProcessingTimeMs]
              end == IF rest THEN now + d ELSE now
              figures == FinalResults(after.total, after.timeMs)
          IN  /\ batches' = after.batches
              /\ totalEventsProcessed' = after.total
              /\ totalProcessingTimeMs' = after.timeMs
              /\ now' = end
              /\ report' =
                    [printed |-> TRUE, events |-> figures.events,
                     timeMs |-> figures.timeMs, M1 |-> figures.M1,
                     numBatches |-> figures.numBatches,
                     M2 |-> figures.M2, at |-> end,
                     inflight |-> {i \in DOMAIN after.batches :
                                      after.batches[i].status = "inflight"},
                     done |-> {i \in DOMAIN after.batches :
                                  after.batches[i].status = "done"},
                     finalBatch |-> IF rest THEN Len(after.batches) ELSE 0]
    /\ changeStream' = "closed"
    /\ client' = "closed"
    /\ clientCloseCalls' = clientCloseCalls + 1
    /\ filtered' = FALSE
    /\ UNCHANGED producer
    /\ UNCHANGED <<argv, pc, eventBatch, idleTimeout, received,
                   measurementStart, lastEventAt, closedBy>>

TimerExpired == idleTimeout.armed /\ now >= idleTimeout.deadline

\* A stream that emits 'close' at every call of close(), closed or not.
StopConsumerReemittingClose ==
    /\ TimerExpired
    /\ idleTimeout' = NoTimer
    /\ changeStream' = "closing"
    /\ closedBy' = IF changeStream = "open" THEN "timer" ELSE closedBy
    /\ filtered' = FALSE
    /\ UNCHANGED producer
    /\ UNCHANGED <<argv, pc, client, eventBatch, totalEventsProcessed,
                   totalProcessingTimeMs, now, batches, report, received,
                   measurementStart, lastEventAt, clientCloseCalls>>

\* A stopConsumer that logs and leaves the stream open.
StopConsumerOnlyLogging ==
    /\ TimerExpired
    /\ idleTimeout' = NoTimer
    /\ filtered' = FALSE
    /\ UNCHANGED producer
    /\ UNCHANGED <<argv, pc, client, changeStream, eventBatch,
                   totalEventsProcessed, totalProcessingTimeMs, now, batches,
                   report, received, measurementStart, lastEventAt, closedBy,
                   clientCloseCalls>>

\* The timer fires: stopConsumer closes the change stream, if there is one.
\* Closing a stream that is already closing or closed emits nothing more.
StopConsumer ==
    /\ TimerExpired
    /\ idleTimeout' = NoTimer
    /\ IF changeStream = "open"
       THEN changeStream' = "closing" /\ closedBy' = "timer"
       ELSE UNCHANGED <<changeStream, closedBy>>
    /\ filtered' = FALSE
    /\ UNCHANGED producer
    /\ UNCHANGED <<argv, pc, client, eventBatch, totalEventsProcessed,
                   totalProcessingTimeMs, now, batches, report, received,
                   measurementStart, lastEventAt, clientCloseCalls>>

\* ---------------------------------------------------------------- clock
\* Time passes while the event loop waits for the timer.  A timer fires at or
\* after its deadline, never before, and an idle event loop does not sleep
\* past an expired timer nor past a pending 'close' event.  Closing the client
\* tears its connections down, so the lookups still pending then settle
\* before more time passes.  A lookup that has been pending for
\* MaxLookupTicks ticks settles before the next one.
Tick ==
    /\ idleTimeout.armed
    /\ ~TimerExpired
    /\ changeStream # "closing"
    /\ client = "closed" => InFlight = {}
    /\ \A i \in InFlight : now - batches[i].start < MaxLookupTicks * TickMs
    /\ now' = now + TickMs
    /\ filtered' = FALSE
    /\ UNCHANGED producer
    /\ UNCHANGED <<argv, pc, client, changeStream, eventBatch,
                   totalEventsProcessed, totalProcessingTimeMs, idleTimeout,
                   batches, report, received, measurementStart, lastEventAt,
                   closedBy, clientCloseCalls>>

Next ==
    \/ Connect
    \/ StartWatching
    \/ OnChange
    \/ OnFiltered
    \/ OnError
    \/ OnClose
    \/ StopConsumer
    \/ Tick
    \/ \E i \in DOMAIN batches : FindResolve(i)
    \/ \E i \in DOMAIN batches : FindReject(i)

Spec == Init /\ [][Next]_vars

\* A pending lookup settles, one way or the other.
Settle == \E i \in DOMAIN batches : FindResolve(i) \/ FindReject(i)

\* What the runtime does on its own, whatever the feed does: connect() and
\* drop() settle, the clock advances, a due timer's callback runs, an emitted
\* 'close' event is dispatched, a pending lookup settles.
Progress ==
    Connect \/ StartWatching \/ Tick \/ StopConsumer \/ OnClose \/ Settle

\* The same program under the guarantee of its runtime: the event loop does
\* not stall while one of these steps is possible.
FairSpec == Spec /\ WF_vars(Progress)

\* ======================================================== the producers
ProducerScripts == {"part_000", "run_generator"}

\* The documents are keyed 0 .. numDocs - 1: the insertedId of the i-th
\* insertOne in part_000, the docId field in run_generator.js.
Min(a, b) == IF a < b THEN a ELSE b

KeysFromTo(from, end) == [k \in 1..(end - from) |-> from + k - 1]

Range(f) == {f[k] : k \in DOMAIN f}

\* A script is started with its --numDocs argument; the client is constructed.
StartProducer ==
    /\ producer.pc = "idle"
    /\ \E script \in ProducerScripts, n \in 0..MaxDocs :
          producer' = [NotStarted EXCEPT !.script = script, !.numDocs = n,
                                         !.pc = "connect", !.client = "created"]
    /\ UNCHANGED consumerVars

\* The catch block of runExperiment and of main: log, go on to finally.
ProducerCatch(p) == [p EXCEPT !.pc = "finally", !.err = TRUE]

\* part_000 after its seeding loop: the 5 s pause.
AfterSeeding(p) == [p EXCEPT !.pc = "wait"]

\* UPDATE_BATCH_SIZE keys and one more.
UpdateBatchKeysInclusive(p, from) ==
    KeysFromTo(from, Min(from + UPDATE_BATCH_SIZE, p.numDocs) + 1)

\* The docId values of the batch of runUpdateWorkload that starts at `from`.
UpdateBatchKeys(p, from) ==
    KeysFromTo(from, Min(from + UPDATE_BATCH_SIZE, p.numDocs))

\* runUpdateWorkload's loop at index `from`: all updateOne calls of the batch
\* are issued, then Promise.all is awaited; past the last batch the function
\* returns and main goes on to finally.
IssueUpdateBatch(p, from) ==
    IF from < p.numDocs
    THEN [p EXCEPT !.pc = "awaitUpdates", !.i = from,
                   !.issued = @ \o UpdateBatchKeys(p, from),
                   !.pending = Range(UpdateBatchKeys(p, from))]
    ELSE [p EXCEPT !.pc = "finally", !.i = from]

\* seedData's loop at index `from`; past the last batch seedData returns and
\* runUpdateWorkload starts in the same step.
SeedFrom(p, from) ==
    IF from < p.numDocs
    THEN [p EXCEPT !.pc = "seed", !.i = from]
    ELSE IssueUpdateBatch(p, 0)

\* await client.connect()
ProducerConnect ==
    /\ producer.pc = "connect"
    /\ \E ok \in BOOLEAN :
          LET opened == [producer EXCEPT !.client = "open"]
          IN  producer' =
                 IF ~ok THEN ProducerCatch(producer)
                 ELSE IF producer.script = "run_generator"
                      THEN [opened EXCEPT !.pc = "deleteMany"]
                 ELSE IF producer.numDocs > 0
                      THEN [opened EXCEPT !.pc = "seed"]
                 ELSE AfterSeeding(opened)
    /\ UNCHANGED consumerVars

\* run_generator.js: await collection.deleteMany({}); a failure is logged as a
\* warning and seeding goes on.
DeleteMany ==
    /\ producer.pc = "deleteMany"
    /\ \E ok \in BOOLEAN :
          producer' = SeedFrom([producer EXCEPT !.deleteFailed = ~ok], 0)
    /\ UNCHANGED consumerVars

\* part_000: await collection.insertOne(doc), then the loop test.  A failed
\* insert may or may not have reached the collection.
InsertOne ==
    /\ producer.script = "part_000"
    /\ producer.pc = "seed"
    /\ \E ok \in BOOLEAN, landed \in BOOLEAN :
          LET key == producer.i
              done == [producer EXCEPT !.inserted = Append(@, key),
                                       !.docIds = Append(@, key),
                                       !.i = key + 1]
          IN  producer' =
                 IF ok
                 THEN (IF key + 1 < producer.numDocs THEN done
                       ELSE AfterSeeding(done))
                 ELSE ProducerCatch(
                        IF landed THEN [producer EXCEPT !.inserted = Append(@, key)]
                        ELSE producer)
    /\ UNCHANGED consumerVars

\* run_generator.js: await collection.insertMany(docs) for one batch.  An
\* ordered insertMany that fails has inserted a prefix of the batch.
InsertMany ==
    /\ producer.script = "run_generator"
    /\ producer.pc = "seed"
    /\ LET end == Min(producer.i + INSERT_BATCH_SIZE, producer.numDocs)
           docs == KeysFromTo(producer.i, end)
       IN  \E ok \in BOOLEAN, landed \in 0..Len(docs) :
              producer' =
                 IF ok
                 THEN SeedFrom([producer EXCEPT !.inserted = @ \o docs],
                               producer.i + INSERT_BATCH_SIZE)
                 ELSE ProducerCatch(
                        [producer EXCEPT !.inserted = @ \o SubSeq(docs, 1, landed)])
    /\ UNCHANGED consumerVars

\* part_000: the 5 s pause ends and the update loop starts.
Wait ==
    /\ producer.pc = "wait"
    /\ producer' = IF producer.docIds = <<>>
                   THEN [producer EXCEPT !.pc = "finally"]
                   ELSE [producer EXCEPT !.pc = "update", !.i = 0]
    /\ UNCHANGED consumerVars

\* part_000: await collection.updateOne({_id: id}, ...) for the next id of
\* docIds, then the loop test.
UpdateOne ==
    /\ producer.pc = "update"
    /\ \E ok \in BOOLEAN :
          LET id == producer.docIds[producer.i + 1]
              sent == [producer EXCEPT !.issued = Append(@, id), !.i = @ + 1]
          IN  producer' =
                 IF ~ok THEN ProducerCatch(sent)
                 ELSE IF sent.i < Len(producer.docIds) THEN sent
                 ELSE [sent EXCEPT !.pc = "finally"]
    /\ UNCHANGED consumerVars

\* run_generator.js: one updateOne of the batch settles.  When the last one
\* resolves Promise.all resolves and the loop goes on; the first one that
\* rejects rejects Promise.all, with the others still pending.
UpdateSettles ==
    /\ producer.pc = "awaitUpdates"
    /\ \E key \in producer.pending, ok \in BOOLEAN :
          LET rest == [producer EXCEPT !.pending = @ \ {key}]
          IN  producer' =
                 IF ~ok THEN ProducerCatch(rest)
                 ELSE IF rest.pending # {} THEN rest
                 ELSE IssueUpdateBatch(rest, producer.i + UPDATE_BATCH_SIZE)
    /\ UNCHANGED consumerVars

\* finally { await client.close() }
ProducerFinally ==
    /\ producer.pc = "finally"
    /\ producer' = [producer EXCEPT !.pc = "done", !.client = "closed"]
    /\ UNCHANGED consumerVars

ProducerNext ==
    \/ StartProducer
    \/ ProducerConnect
    \/ DeleteMany
    \/ InsertOne
    \/ InsertMany
    \/ Wait
    \/ UpdateOne
    \/ UpdateSettles
    \/ ProducerFinally

ProducerSpec == Init /\ [][ProducerNext]_vars

\* ================================================================ claims
\* Wall-clock time from the first measured event to the report.
ElapsedMeasurementTime ==
    IF measurementStart = <<>> THEN 0 ELSE report.at - measurementStart[1]

\* The run ended: startConsumer's catch block ran, or the report was printed.
Exited == pc = "failed" \/ report.printed

\* C1: after n update events and before the 'close' handler has run, exactly
\* floor(n / batchSize) batches were handed to processBatch and exactly
\* n mod batchSize events are in eventBatch.
C1_FullBatchesAndRemainder ==
    changeStream \in {"open", "closing"} =>
        /\ Len(batches) = Len(received) \div argv.batchSize
        /\ Len(eventBatch) = Len(received) % argv.batchSize

C1_Witness ==
    /\ changeStream = "open"
    /\ argv.batchSize = 2
    /\ Len(received) = 3
    /\ Len(batches) = 1
    /\ Len(eventBatch) = 1

\* C2: when the idle timer closed the stream with events still buffered, the
\* batch of those events has been processed and counted by the time the
\* report is printed, in both fullDocument modes.
C2_FinalBatchCountedBeforeReport ==
    (report.printed /\ closedBy = "timer" /\ report.finalBatch # 0) =>
        /\ report.finalBatch \in report.done
        /\ report.events >= Len(batches[report.finalBatch].events)

\* C3: when the report is printed after the idle timeout, no batch handed to
\* processBatch is still being processed.
C3_NoBatchInFlightAtReport ==
    (report.printed /\ closedBy = "timer") => report.inflight = {}

\* C4: after the idle timeout, the reported average batch latency is the total
\* latency divided by the number of batches processed, and 0 when none was;
\* with batchSize 3 and five events, 5 events are counted and the divisor is 2.
C4_AverageIsTotalOverBatchCount ==
    (report.printed /\ closedBy = "timer") =>
        /\ NumEq(report.M2,
                 IF report.done = {} THEN Zero
                 ELSE Num(report.timeMs, Cardinality(report.done)))
        /\ (argv.batchSize = 3 /\ Len(received) = 5) =>
              /\ report.events = 5
              /\ NumEq(report.numBatches, Num(2, 1))

\* C5: after the idle timeout, the reported throughput is the number of
\* processed events divided by the wall-clock time from the first measured
\* event to the report (events per second), and 0 when that time is zero.
C5_ThroughputIsOverElapsedTime ==
    (report.printed /\ closedBy = "timer") =>
        NumEq(report.M1,
              IF ElapsedMeasurementTime = 0 THEN Zero
              ELSE Num(report.events * 1000, ElapsedMeasurementTime))

\* C6: when the timer expires and no update event ever arrived, the metrics
\* report is not printed.
C6_NoReportWithoutMeasuredEvent ==
    (closedBy = "timer" /\ received = <<>>) => ~report.printed

\* C7: before the first update event, every event that is no update re-arms
\* the pending timer to a full idle window from its arrival.
C7_NonMeasuredEventRearmsTimer ==
    [][(filtered' /\ received = <<>>)
          => idleTimeout' = Timer(now' + IdleTimeoutMs)]_vars

\* C8: client.close() is never called twice, and it has been called once
\* whenever the run has ended: after the report, whatever closed the stream,
\* and after a failure of connect, drop or watch.
C8_ClientClosedExactlyOnce ==
    /\ clientCloseCalls <= 1
    /\ Exited => clientCloseCalls = 1 /\ client = "closed"

C8_Witness ==
    /\ closedBy = "error"
    /\ report.printed
    /\ ~idleTimeout.armed
    /\ clientCloseCalls = 1

\* C9: the step in which a batch's lookup fails leaves the stream, the timer,
\* the buffer, the client and startConsumer's position as they were, so
\* ingestion goes on and the run ends by the idle timeout.
C9_BatchFailureLeavesIngestionRunning ==
    [][(\E i \in DOMAIN batches :
            batches[i].status = "inflight" /\ batches'[i].status = "failed")
          => /\ changeStream' = changeStream
             /\ idleTimeout' = idleTimeout
             /\ eventBatch' = eventBatch
             /\ received' = received
             /\ client' = client
             /\ pc' = pc]_vars

C9_Witness ==
    /\ report.printed
    /\ closedBy = "timer"
    /\ \E i, j \in DOMAIN batches :
          /\ i < j
          /\ batches[i].status = "failed"
          /\ batches[j].start > batches[i].end
          /\ batches[j].status = "done"

\* C10: the batches handed to processBatch, concatenated in hand-off order and
\* followed by the buffer, are the update events received, in order; once the
\* report is printed the batches alone are.
C10_BatchesAreTheEventsInOrder ==
    /\ changeStream \in {"open", "closing"} =>
          Concat(BatchEvents) \o eventBatch = received
    /\ report.printed => Concat(BatchEvents) = received

C10_Witness ==
    /\ report.printed
    /\ argv.batchSize = 2
    /\ Len(received) = 3
    /\ Len(batches) = 2
    /\ Len(batches[2].events) = 1

\* Sizes and latencies of the batches processed successfully.
DoneSizes ==
    [i \in DOMAIN batches |->
        IF batches[i].status = "done" THEN Len(batches[i].events) ELSE 0]

DoneLatencies ==
    [i \in DOMAIN batches |->
        IF batches[i].status = "done" THEN batches[i].end - batches[i].start ELSE 0]

\* C11: whenever no processBatch invocation is in flight, totalEventsProcessed
\* is the sum of the sizes of the batches processed successfully and
\* totalProcessingTimeMs the sum of their latencies, each counted once,
\* however the invocations overlapped.
C11_NoLostUpdates ==
    InFlight = {} =>
        /\ totalEventsProcessed = SumSeq(DoneSizes)
        /\ totalProcessingTimeMs = SumSeq(DoneLatencies)

\* Two invocations that overlapped and completed in the reverse order.
C11_Witness ==
    /\ InFlight = {}
    /\ \E i, j \in DOMAIN batches :
          /\ i < j
          /\ batches[i].status = "done" /\ batches[j].status = "done"
          /\ batches[j].start < batches[i].end
          /\ batches[j].end < batches[i].end

\* C12: the timer fires only when a full idle window has passed since the last
\* update event arrived (since the stream was opened, when none arrived), and
\* the step that delivers an update event leaves the timer armed for a full
\* window from its end, so the timer cannot fire inside that step.
C12_TimerNeverFiresSpuriously ==
    [][/\ (idleTimeout.armed /\ ~idleTimeout'.armed) =>
             /\ now >= IdleTimeoutMs
             /\ lastEventAt # <<>> => now >= lastEventAt[1] + IdleTimeoutMs
       /\ received' # received =>
             /\ idleTimeout'.armed
             /\ idleTimeout'.deadline = now' + IdleTimeoutMs
             /\ lastEventAt' = <<now>>]_vars

\* The timer stopped the consumer a full window after the second of two
\* update events, having let the deadline set at the first one pass.
C12_Witness ==
    /\ closedBy = "timer"
    /\ argv.batchSize = 1
    /\ Len(batches) = 2
    /\ batches[1].start = 0
    /\ batches[2].start = TickMs
    /\ lastEventAt = <<TickMs>>
    /\ now >= TickMs + IdleTimeoutMs

C14_OneBulkLookupOfTheBatchKeys ==
    argv.fullDocument = "default" =>
        /\ \A i \in DOMAIN batches :
              /\ Len(batches[i].lookups) = 1
              /\ Range(batches[i].lookups[1]) =
                    {batches[i].events[k].documentKey : k \in DOMAIN batches[i].events}
        /\ InFlight = {} => totalProcessingTimeMs = SumSeq(DoneLatencies)

\* A batch of the keys 3 and 4 was looked up and took a whole tick.
C14_Witness ==
    /\ argv = [fullDocument |-> "default", batchSize |-> 2]
    /\ Len(batches) = 2
    /\ batches[2].status = "done"
    /\ batches[2].lookups = << <<3, 4>> >>
    /\ batches[2].end - batches[2].start = TickMs
    /\ totalProcessingTimeMs = SumSeq(DoneLatencies)

\* The consumer has stopped: the timer fired, the stream is closed, the report
\* is printed and the client is closed.
Stopped ==
    /\ pc = "listening"
    /\ ~idleTimeout.armed
    /\ changeStream = "closed"
    /\ report.printed
    /\ client = "closed"

\* C15: the consumer never waits forever.  Unless startup fails, it eventually
\* stops: the feed delivers finitely many update events, so the idle timer
\* fires, the stream is closed, the report is printed and the client closed.
C15_ConsumerEventuallyStops == <>(pc = "failed" \/ Stopped)

\* The consumer stopped by the idle timeout after all the events of the feed.
C15_Witness ==
    /\ Stopped
    /\ closedBy = "timer"
    /\ Len(received) = MaxEvents
    /\ lastEventAt # <<0>>

\* C16: for an integer batchSize >= 1, between any two steps the buffer holds
\* fewer than batchSize events, and every batch handed to processBatch, by
\* the 'change' handler or by the 'close' handler, holds at least one event
\* and at most batchSize.
C16_BufferAndBatchSizes ==
    /\ argv.batchSize >= 1
    /\ Len(eventBatch) < argv.batchSize
    /\ \A i \in DOMAIN batches :
          /\ Len(batches[i].events) >= 1
          /\ Len(batches[i].events) <= argv.batchSize

\* A full batch was handed over, the buffer was filled again to one event
\* short of a batch, and the 'close' handler handed that over.
C16_Witness ==
    /\ argv.batchSize = MaxBatchSize
    /\ changeStream = "closed"
    /\ Len(eventBatch) = argv.batchSize - 1
    /\ Len(batches) = 2
    /\ Len(batches[1].events) = argv.batchSize
    /\ batches[2].events = eventBatch

\* C17: the report is printed at most once and the final batch handed over at
\* most once: a step changes the report only by printing it for the first
\* time, and once it is printed no further batch is handed to processBatch,
\* whatever the order of timer expiry, stream error and 'close'.
C17_ReportAtMostOnce ==
    [][/\ report' # report => ~report.printed /\ report'.printed
       /\ report.printed => Len(batches') = Len(batches)]_vars

\* The driver closed the stream after an error, the report was printed with
\* events still in the buffer, and the idle timer fired later on the closed
\* stream.
C17_Witness ==
    /\ closedBy = "error"
    /\ report.printed
    /\ report.finalBatch # 0
    /\ eventBatch # <<>>
    /\ ~idleTimeout.armed
    /\ now > report.at
    /\ changeStream = "closed"

\* The events of the batches that had completed when the report was printed.
ReportedSizes ==
    [i \in DOMAIN batches |->
        IF i \in report.done THEN Len(batches[i].events) ELSE 0]

\* C18: a failed batch is left out of everything: the two counters hold the
\* events and the latencies of the batches that completed and nothing of a
\* failed one, and the report's event count and the batch count it divides
\* by are those of the completed batches.
C18_FailedBatchExcludedUniformly ==
    /\ totalEventsProcessed = SumSeq(DoneSizes)
    /\ totalProcessingTimeMs = SumSeq(DoneLatencies)
    /\ report.printed =>
          /\ report.events = SumSeq(ReportedSizes)
          /\ NumEq(report.numBatches, Num(report.events, argv.batchSize))

\* One batch failed and another completed before the report, which counts
\* the events of the second only.
C18_Witness ==
    /\ report.printed
    /\ closedBy = "timer"
    /\ \E i, j \in DOMAIN batches :
          /\ batches[i].status = "failed" /\ batches[i].end < report.at
          /\ j \in report.done
          /\ report.events = Len(batches[j].events)
          /\ totalProcessingTimeMs = batches[j].end - batches[j].start
          /\ totalProcessingTimeMs > 0

NoDuplicates(keys) == \A m, n \in DOMAIN keys : keys[m] = keys[n] => m = n

\* C19: in both producer scripts, for numDocs in 0..MaxDocs: no updateOne is
\* issued before numDocs documents are inserted; never more than numDocs, and
\* no document twice; an update is issued only for an inserted document and
\* never twice for one; a run that ends without error has inserted exactly
\* the documents 0 .. numDocs - 1 and issued exactly one update for each; and
\* a run that has ended, with or without error, has closed its client.
C19_ProducerSeedsThenUpdatesOnce ==
    /\ producer.issued # <<>> => Len(producer.inserted) = producer.numDocs
    /\ Len(producer.inserted) <= producer.numDocs
    /\ NoDuplicates(producer.inserted)
    /\ NoDuplicates(producer.issued)
    /\ Range(producer.issued) \subseteq Range(producer.inserted)
    /\ (producer.pc = "done" /\ ~producer.err) =>
          /\ Range(producer.inserted) = 0..(producer.numDocs - 1)
          /\ Range(producer.issued) = Range(producer.inserted)
    /\ producer.pc = "done" => producer.client = "closed"
    /\ producer.client = "closed" => producer.pc = "done"

\* run_generator.js has seeded and updated MaxDocs documents, in more than
\* one batch, and closed its client.
C19_Witness ==
    /\ producer.script = "run_generator"
    /\ producer.pc = "done"
    /\ ~producer.err
    /\ producer.numDocs = MaxDocs
    /\ producer.numDocs > UPDATE_BATCH_SIZE
    /\ Len(producer.issued) = MaxDocs
    /\ producer.client = "closed"
=============================================================================
